---- MODULE Spec2Model ----
(***************************************************************************)
(* gitime: set every tracked file's atime/mtime to the author date of a    *)
(* commit that touched it (src/gitime.go, the active path main -> logWalk).*)
(*                                                                         *)
(* Text is a sequence of one-character strings; "\n" separates lines.      *)
(* The repository answers `git log` and `git show` the same way every time *)
(* it is asked (gitLog, gitShow record the answers already given), and the *)
(* working tree is changed by nothing but the program.                     *)
(***************************************************************************)
EXTENDS Integers, Sequences, FiniteSets, TLC

\* Largest number of commits in the history.
MaxCommits == 2

----------------------------------------------------------------------------
\* Text and the external tool's output formats

NL == "\n"

\* Commit identifiers, in the order `git log` emits them.
HashChars == <<"a", "b", "c", "d">>

CommitIds == {<<HashChars[k]>> : k \in 1..MaxCommits}

\* Author dates the repository may hold; time t is written DateLine(t).
Digits == <<"1", "2", "3">>

Times == 1..Len(Digits)

\* The zero time.Time a failed time.Parse returns.
ZeroTime == 0

\* The time a fresh checkout stamps on every file: later than every commit.
CheckoutTime == Len(Digits) + 1

\* Stand-in for a line in the layout "Mon Jan 2 15:04:05 2006 -0700".
DateLine(t) == <<"D", Digits[t]>>

\* A first line that is not in the layout.
BadDateLine == <<"?">>

\* Relative paths of the working tree, in the order --name-only lists them.
RelPaths == << <<"x">>, <<"y">> >>

RelPathSet == {RelPaths[k] : k \in 1..Len(RelPaths)}

\* The working directory os.Getwd returns.
Pwd == <<"w">>

\* path.Join(gitDir, f)
PathJoin(dir, f) == dir \o <<"/">> \o f

AbsPaths == {PathJoin(Pwd, p) : p \in RelPathSet}

RECURSIVE JoinLines(_)
\* Every line followed by a newline, as the tool prints them.
JoinLines(ls) ==
    IF ls = <<>> THEN <<>> ELSE ls[1] \o <<NL>> \o JoinLines(Tail(ls))

RECURSIVE SplitFrom(_, _, _)
SplitFrom(s, k, cur) ==
    IF k > Len(s) THEN <<cur>>
    ELSE IF s[k] = NL THEN <<cur>> \o SplitFrom(s, k + 1, <<>>)
    ELSE SplitFrom(s, k + 1, Append(cur, s[k]))

\* strings.Split(s, "\n"): never empty; "" splits to one empty string.
Split(s) == SplitFrom(s, 1, <<>>)

\* `git log --pretty=%H` on a history of n commits: one identifier per line.
LogOutput(n) == JoinLines([k \in 1..n |-> <<HashChars[k]>>])

\* The paths of S in listing order.
ListedPaths(S) == SelectSeq(RelPaths, LAMBDA p : p \in S)

\* `git show --name-only --pretty=%ad`: date line, blank line, one path per line.
ShowOutput(dateLine, S) == dateLine \o <<NL>> \o <<NL>> \o JoinLines(ListedPaths(S))

\* A history command that prints nothing but an empty line.
BlankLog == <<NL>>

\* What cmd.CombinedOutput() of `git log` may return.
LogResults ==
    {[fail |-> TRUE, out |-> <<"!">>]}
    \cup {[fail |-> FALSE, out |-> LogOutput(n)] : n \in 0..MaxCommits}
    \cup {[fail |-> FALSE, out |-> BlankLog]}

\* What cmd.CombinedOutput() of `git show <hash>` may return. Beside the text
\* the program reads (fail, out), an answer carries what the repository holds
\* for the commit: whether its date is in the layout, the date, the paths.
ShowResults(hash) ==
    {[fail |-> TRUE, out |-> <<"!">>, dated |-> FALSE, time |-> ZeroTime, paths |-> {}]}
    \cup IF hash \in CommitIds
         THEN {[fail |-> FALSE, out |-> ShowOutput(DateLine(t), S),
                dated |-> TRUE, time |-> t, paths |-> S] :
                  t \in Times, S \in SUBSET RelPathSet}
              \cup {[fail |-> FALSE, out |-> ShowOutput(BadDateLine, S),
                     dated |-> FALSE, time |-> ZeroTime, paths |-> S] :
                       S \in SUBSET RelPathSet}
         ELSE {}

----------------------------------------------------------------------------
\* State

VARIABLES
    disk,       \* absolute path -> [exists, atime, mtime]
    disk0,      \* the working tree before the first run
    readonly,   \* existing paths on which os.Chtimes fails
    getwdFails, \* whether os.Getwd fails
    gitLog,     \* the answer `git log` gave, once asked
    gitShow,    \* hash -> the answer `git show` gave, once asked
    pc,         \* position in main/logWalk
    hashes,     \* logWalk: the commit list
    i,          \* logWalk: index of the commit loop
    mtime,      \* logWalk: the current commit's date
    fs,         \* logWalk: the current commit's files
    j,          \* logWalk: index of the file loop
    exitCode,   \* the process exit status, once exited
    events,     \* this run's subprocess calls, Chtimes calls and stderr lines
    run,        \* 1 for the first run of the program, 2 for the second
    first       \* the first run's outcome, once it has exited

vars == <<disk, disk0, readonly, getwdFails, gitLog, gitShow, pc, hashes, i,
          mtime, fs, j, exitCode, events, run, first>>

env == <<disk0, readonly, getwdFails>>

Missing == [exists |-> FALSE, atime |-> ZeroTime, mtime |-> ZeroTime]

Fresh == [exists |-> TRUE, atime |-> CheckoutTime, mtime |-> CheckoutTime]

NoAnswer == [asked |-> FALSE, fail |-> FALSE, out |-> <<>>]

NoRun == [done |-> FALSE, disk |-> [p \in AbsPaths |-> Missing], exitCode |-> 0]

\* An observable step: op is "log" or "show" (a subprocess call), "chtimes"
\* (a successful os.Chtimes), "skip" (the SKIP line on stderr) or one of
\* ErrorOps (an error line on stderr); arg is the hash or the relative path.
Ev(op, arg, t) == [op |-> op, arg |-> arg, time |-> t]

ErrorOps == {"getwd-error", "log-error", "show-error", "parse-error",
             "chtimes-error"}

\* The process image at its start.
Start ==
    /\ pc = "main"
    /\ hashes = <<>>
    /\ i = 1
    /\ mtime = ZeroTime
    /\ fs = <<>>
    /\ j = 1
    /\ exitCode = 0
    /\ events = <<>>

Init ==
    /\ disk \in [AbsPaths -> {Missing, Fresh}]
    /\ disk0 = disk
    /\ readonly \in SUBSET {p \in AbsPaths : disk[p].exists}
    /\ getwdFails \in BOOLEAN
    /\ gitLog = NoAnswer
    /\ gitShow = <<>>
    /\ run = 1
    /\ first = NoRun
    /\ Start

----------------------------------------------------------------------------
\* Pure parts of the code

\* os.IsNotExist(err) of os.Stat(fpath)
IsNotExist(d, fpath) == ~d[fpath].exists

\* os.Chtimes(fpath, atime, mtime) when it succeeds
Chtimes(d, fpath, at, mt) == [d EXCEPT ![fpath].atime = at, ![fpath].mtime = mt]

\* Faulty variant of Stamp: the time is written only when it moves the file back.
StampOnlyOlder(d, fpath, t) ==
    IF t < d[fpath].mtime THEN Chtimes(d, fpath, t, t) ELSE d

\* Faulty variant of Stamp: the file's previous mtime is passed as its atime.
StampKeepAtime(d, fpath, t) == Chtimes(d, fpath, d[fpath].mtime, t)

\* Faulty variant of Stamp: only the mtime is changed.
StampMtimeOnly(d, fpath, t) == Chtimes(d, fpath, d[fpath].atime, t)

\* line 66: os.Chtimes(fpath, mtime, mtime)
Stamp(d, fpath, t) == Chtimes(d, fpath, t, t)

\* Faulty variant of ParseTime: the parse error is dropped.
ParseTimeLenient(line) ==
    [ok |-> TRUE,
     t |-> IF \E t \in Times : line = DateLine(t)
           THEN CHOOSE t \in Times : line = DateLine(t)
           ELSE ZeroTime]

\* time.Parse("Mon Jan 2 15:04:05 2006 -0700", line)
ParseTime(line) ==
    IF \E t \in Times : line = DateLine(t)
    THEN [ok |-> TRUE, t |-> CHOOSE t \in Times : line = DateLine(t)]
    ELSE [ok |-> FALSE, t |-> ZeroTime]

\* lines 105-110: the non-empty lines after the first
CollectFiles(lines) ==
    SelectSeq(SubSeq(lines, 2, Len(lines)), LAMBDA l : l # <<>>)

\* getCommitFiles, given what the command returned
CommitFiles(res) ==
    IF res.fail
    THEN [err |-> "show-error", date |-> ZeroTime, files |-> <<>>]
    ELSE LET lines == Split(res.out)
             parsed == ParseTime(lines[1])
         IN [err |-> IF parsed.ok THEN "" ELSE "parse-error",
             date |-> parsed.t,
             files |-> CollectFiles(lines)]

\* Faulty variant of IsEmptyHash: the check is missing.
IsEmptyHashNever(hash) == FALSE

\* line 46: hash == ""
IsEmptyHash(hash) == hash = <<>>

----------------------------------------------------------------------------
\* Steps of main and logWalk

\* os.Exit(code), or main returning (code 0)
Exit(code) ==
    /\ pc' = "exited"
    /\ exitCode' = code

\* lines 24-32
Main ==
    /\ pc = "main"
    /\ IF getwdFails
       THEN /\ events' = Append(events, Ev("getwd-error", <<>>, ZeroTime))
            /\ Exit(1)
       ELSE /\ pc' = "getCommits"
            /\ UNCHANGED <<exitCode, events>>
    /\ UNCHANGED <<disk, env, gitLog, gitShow, hashes, i, mtime, fs, j, run,
                   first>>

\* Faulty variant of LogFailed: the error is reported and logWalk returns.
LogFailedReturn == Exit(0) /\ UNCHANGED <<hashes, i>>

\* lines 39-42: getCommits returned an error
LogFailed == Exit(1) /\ UNCHANGED <<hashes, i>>

\* lines 38-42, 76-87
GetCommits ==
    /\ pc = "getCommits"
    /\ \E res \in IF gitLog.asked THEN {gitLog} ELSE
                     {[asked |-> TRUE, fail |-> r.fail, out |-> r.out] :
                         r \in LogResults} :
          /\ gitLog' = res
          /\ IF res.fail
             THEN /\ events' = events \o <<Ev("log", <<>>, ZeroTime),
                                            Ev("log-error", <<>>, ZeroTime)>>
                  /\ LogFailed
             ELSE /\ events' = Append(events, Ev("log", <<>>, ZeroTime))
                  /\ hashes' = Split(res.out)
                  /\ i' = 1
                  /\ pc' = "commits"
                  /\ UNCHANGED exitCode
    /\ UNCHANGED <<disk, env, gitShow, mtime, fs, j, run, first>>

\* line 45 exhausted, line 73, main returns
LogWalkDone ==
    /\ pc = "commits"
    /\ i > Len(hashes)
    /\ Exit(0)
    /\ UNCHANGED <<disk, env, gitLog, gitShow, hashes, i, mtime, fs, j,
                   events, run, first>>

\* lines 46-48
SkipEmptyHash ==
    /\ pc = "commits"
    /\ i <= Len(hashes)
    /\ IsEmptyHash(hashes[i])
    /\ i' = i + 1
    /\ UNCHANGED <<disk, env, gitLog, gitShow, pc, hashes, mtime, fs, j,
                   exitCode, events, run, first>>

\* Faulty variant of ShowFailed: the error is reported and the loop continues.
ShowFailedContinue == i' = i + 1 /\ UNCHANGED <<pc, exitCode, j>>

\* lines 50-53: getCommitFiles returned an error
ShowFailed == Exit(1) /\ UNCHANGED <<i, j>>

\* lines 49-53, 90-113
GetCommitFiles ==
    /\ pc = "commits"
    /\ i <= Len(hashes)
    /\ ~IsEmptyHash(hashes[i])
    /\ LET hash == hashes[i] IN
       \E res \in IF hash \in DOMAIN gitShow THEN {gitShow[hash]}
                  ELSE ShowResults(hash) :
          LET cf == CommitFiles(res) IN
          /\ gitShow' = IF hash \in DOMAIN gitShow THEN gitShow
                        ELSE [h \in DOMAIN gitShow \cup {hash} |->
                                 IF h = hash THEN res ELSE gitShow[h]]
          /\ mtime' = cf.date
          /\ fs' = cf.files
          /\ IF cf.err # ""
             THEN /\ events' = events \o <<Ev("show", hash, ZeroTime),
                                            Ev(cf.err, hash, ZeroTime)>>
                  /\ ShowFailed
             ELSE /\ events' = Append(events, Ev("show", hash, ZeroTime))
                  /\ j' = 1
                  /\ pc' = "files"
                  /\ UNCHANGED <<i, exitCode>>
    /\ UNCHANGED <<disk, env, gitLog, hashes, run, first>>

\* line 56 exhausted: on to the next commit
FilesDone ==
    /\ pc = "files"
    /\ j > Len(fs)
    /\ pc' = "commits"
    /\ i' = i + 1
    /\ UNCHANGED <<disk, env, gitLog, gitShow, hashes, mtime, fs, j, exitCode,
                   events, run, first>>

\* Faulty variant of OnMissing: a missing path ends the process.
OnMissingFatal == Exit(1) /\ UNCHANGED <<disk, i, j>>

\* lines 60-63: the path does not exist; `continue`
OnMissing == j' = j + 1 /\ UNCHANGED <<disk, pc, i, exitCode>>

\* Faulty variant of OnChtimesError: the error is reported and the loop continues.
OnChtimesErrorContinue == j' = j + 1 /\ UNCHANGED <<disk, pc, i, exitCode>>

\* lines 67-70: os.Chtimes returned an error
OnChtimesError == Exit(1) /\ UNCHANGED <<disk, i, j>>

\* lines 56-71, one file
UpdateFile ==
    /\ pc = "files"
    /\ j <= Len(fs)
    /\ LET f == fs[j]
           fpath == PathJoin(Pwd, f)
       IN IF IsNotExist(disk, fpath)
          THEN /\ events' = Append(events, Ev("skip", f, ZeroTime))
               /\ OnMissing
          ELSE IF fpath \in readonly
          THEN /\ events' = Append(events, Ev("chtimes-error", f, mtime))
               /\ OnChtimesError
          ELSE /\ events' = Append(events, Ev("chtimes", f, mtime))
               /\ disk' = Stamp(disk, fpath, mtime)
               /\ j' = j + 1
               /\ UNCHANGED <<pc, i, exitCode>>
    /\ UNCHANGED <<env, gitLog, gitShow, hashes, mtime, fs, run, first>>

\* The program is run a second time on what the first run left.
Rerun ==
    /\ pc = "exited"
    /\ run = 1
    /\ run' = 2
    /\ first' = [done |-> TRUE, disk |-> disk, exitCode |-> exitCode]
    /\ pc' = "main"
    /\ hashes' = <<>>
    /\ i' = 1
    /\ mtime' = ZeroTime
    /\ fs' = <<>>
    /\ j' = 1
    /\ exitCode' = 0
    /\ events' = <<>>
    /\ UNCHANGED <<disk, env, gitLog, gitShow>>

Next ==
    \/ Main
    \/ GetCommits
    \/ LogWalkDone
    \/ SkipEmptyHash
    \/ GetCommitFiles
    \/ FilesDone
    \/ UpdateFile
    \/ Rerun

Spec == Init /\ [][Next]_vars

----------------------------------------------------------------------------
\* Vocabulary of the properties

Exited == pc = "exited"

EventIdx == 1..Len(events)

ErrorEvents == {n \in EventIdx : events[n].op \in ErrorOps}

\* The run has ended and no fatal error was reported.
Succeeded == Exited /\ ErrorEvents = {}

Abs(p) == PathJoin(Pwd, p)

MaxOf(S) == CHOOSE x \in S : \A y \in S : y <= x

MinOf(S) == CHOOSE x \in S : \A y \in S : x <= y

\* Positions of the enumeration whose commit lists path p.
Touching(p) ==
    {k \in 1..Len(hashes) :
        /\ hashes[k] # <<>>
        /\ hashes[k] \in DOMAIN gitShow
        /\ p \in gitShow[hashes[k]].paths}

\* The repository's date of the commit at position k of the enumeration.
TimeAt(k) == gitShow[hashes[k]].time

\* Successful Chtimes calls of this run on relative path p.
StampsOf(p) == {n \in EventIdx : events[n].op = "chtimes" /\ events[n].arg = p}

\* The `git show` call that precedes event n.
ShowBefore(n) == MaxOf({m \in 1..n : events[m].op = "show"})

----------------------------------------------------------------------------
\* C1: after a run that ends without a fatal error, every existing path that
\* some enumerated commit lists carries (atime and mtime) the date of the LAST
\* commit in enumeration order that lists it.
LastWriteWins ==
    Succeeded =>
        \A p \in RelPathSet :
            (disk[Abs(p)].exists /\ Touching(p) # {}) =>
                /\ disk[Abs(p)].mtime = TimeAt(MaxOf(Touching(p)))
                /\ disk[Abs(p)].atime = TimeAt(MaxOf(Touching(p)))

\* C1 witness: two commits with different dates list an existing path and the
\* run has ended with the later-enumerated commit's date on it.
LastWriteWinsWitness ==
    /\ Succeeded
    /\ run = 1
    /\ \E p \in RelPathSet : \E k1, k2 \in Touching(p) :
          /\ k1 < k2
          /\ k2 = MaxOf(Touching(p))
          /\ TimeAt(k1) # TimeAt(k2)
          /\ disk[Abs(p)].exists
          /\ disk[Abs(p)].mtime = TimeAt(k2)

\* The enumeration is newest first: dates strictly decrease along it.
NewestFirst ==
    \A k1, k2 \in 1..Len(hashes) :
        (k1 < k2 /\ hashes[k1] \in DOMAIN gitShow /\ hashes[k2] \in DOMAIN gitShow)
            => TimeAt(k1) > TimeAt(k2)

\* C2 (the claim as stated): when the history is enumerated newest first,
\* after a successful run every existing touched path carries the date of the
\* NEWEST commit that touched it.
NewestCommitWins ==
    (Succeeded /\ NewestFirst) =>
        \A p \in RelPathSet :
            (disk[Abs(p)].exists /\ Touching(p) # {}) =>
                disk[Abs(p)].mtime = TimeAt(MinOf(Touching(p)))

\* C3: a second run on what the first run left ends with the same timestamps
\* on every file and the same exit status as the first run.
Idempotent ==
    (run = 2 /\ Exited) => (disk = first.disk /\ exitCode = first.exitCode)

\* C3 witness: the second run has ended after stamping at least one file.
IdempotentWitness ==
    /\ run = 2
    /\ Exited
    /\ \E n \in EventIdx : events[n].op = "chtimes"
    /\ disk # disk0

\* Nothing but missing files goes wrong in this run.
OnlyMissingFilesWrong ==
    /\ ~getwdFails
    /\ gitLog.asked
    /\ ~gitLog.fail
    /\ \A h \in DOMAIN gitShow :
          /\ ~gitShow[h].fail
          /\ gitShow[h].dated
          /\ \A p \in gitShow[h].paths : Abs(p) \notin readonly

\* C4: a listed path that does not exist is neither stamped nor created, the
\* process does not stop at it, and a run in which nothing else goes wrong
\* handles every path of every commit and exits 0.
MissingFileSkip ==
    /\ \A n \in EventIdx :
          events[n].op = "skip" =>
              /\ ~disk[Abs(events[n].arg)].exists
              /\ disk[Abs(events[n].arg)] = disk0[Abs(events[n].arg)]
              /\ StampsOf(events[n].arg) = {}
              /\ (n = Len(events) /\ Exited) => exitCode = 0
    /\ (Exited /\ OnlyMissingFilesWrong) =>
          /\ exitCode = 0
          /\ \A k \in 1..Len(hashes) :
                hashes[k] # <<>> =>
                    /\ \E n \in EventIdx :
                          events[n].op = "show" /\ events[n].arg = hashes[k]
                    /\ \A p \in gitShow[hashes[k]].paths :
                          \E n \in EventIdx :
                              /\ events[n].arg = p
                              /\ events[ShowBefore(n)].arg = hashes[k]
                              /\ events[n].op =
                                    IF disk0[Abs(p)].exists THEN "chtimes" ELSE "skip"

\* C4 witness: a commit lists a missing path and then an existing one; the
\* first was skipped, the second stamped, and the run exited 0.
MissingFileSkipWitness ==
    /\ Exited
    /\ exitCode = 0
    /\ run = 1
    /\ \E n \in EventIdx :
          /\ events[n].op = "skip"
          /\ n < Len(events)
          /\ events[n + 1].op = "chtimes"
          /\ disk[Abs(events[n + 1].arg)].mtime = events[n + 1].time

\* The repository's answer for hash h has a first line outside the layout.
Malformed(h) == h \in DOMAIN gitShow /\ ~gitShow[h].fail /\ ~gitShow[h].dated

\* C5: when the show output's first line does not parse, the path lines are
\* still collected but the call is followed only by the error report: the
\* process has exited with status 1, with no Chtimes call and no further
\* `git show` after it.
MalformedDateIsFatal ==
    \A n \in EventIdx :
        (events[n].op = "show" /\ Malformed(events[n].arg)) =>
            /\ Len(events) = n + 1
            /\ events[n + 1].op = "parse-error"
            /\ Exited
            /\ exitCode = 1
            /\ fs = ListedPaths(gitShow[events[n].arg].paths)
            /\ \A p \in RelPathSet :
                  StampsOf(p) # {} =>
                      disk[Abs(p)].mtime = events[MaxOf(StampsOf(p))].time

\* C5 witness: the first commit's date is malformed, it lists an existing
\* writable path, and another commit follows it in the enumeration.
MalformedDateIsFatalWitness ==
    /\ run = 1
    /\ \E n \in EventIdx :
          /\ events[n].op = "show"
          /\ Malformed(events[n].arg)
          /\ \E p \in gitShow[events[n].arg].paths :
                disk[Abs(p)].exists /\ Abs(p) \notin readonly
    /\ i < Len(hashes)
    /\ hashes[i + 1] # <<>>

FatalCause ==
    \/ getwdFails
    \/ \E n \in EventIdx : events[n].op = "log" /\ gitLog.fail
    \/ \E n \in EventIdx :
          /\ events[n].op = "show"
          /\ (gitShow[events[n].arg].fail \/ ~gitShow[events[n].arg].dated)
    \/ \E n \in EventIdx : events[n].op = "chtimes-error"

\* C7: the exit status is 1 exactly when a fatal error was reported (working
\* directory, `git log`, `git show`, date parse, Chtimes) and 0 otherwise,
\* however many paths were skipped as missing.
ExitCodeIffFatal ==
    Exited =>
        /\ exitCode = (IF FatalCause THEN 1 ELSE 0)
        /\ FatalCause <=> ErrorEvents # {}

\* C7 witness: a run with a skipped path and no fatal error has exited 0.
ExitCodeIffFatalWitness ==
    /\ Exited
    /\ exitCode = 0
    /\ \E n \in EventIdx : events[n].op = "skip"
    /\ \E n \in EventIdx : events[n].op = "chtimes"

\* C8: a failed Chtimes is the last thing the process does: it has exited
\* with status 1, and every file stamped earlier in the run still carries the
\* value last written to it.
WriteErrorFailFast ==
    \A n \in EventIdx :
        events[n].op = "chtimes-error" =>
            /\ n = Len(events)
            /\ Exited
            /\ exitCode = 1
            /\ \A p \in RelPathSet :
                  StampsOf(p) # {} =>
                      /\ disk[Abs(p)].mtime = events[MaxOf(StampsOf(p))].time
                      /\ disk[Abs(p)].atime = events[MaxOf(StampsOf(p))].time

\* C8 witness: Chtimes failed after another file had been stamped, and
\* another commit follows in the enumeration.
WriteErrorFailFastWitness ==
    /\ run = 1
    /\ \E n \in EventIdx :
          /\ events[n].op = "chtimes-error"
          /\ \E m \in 1..n : events[m].op = "chtimes"
    /\ \E p \in AbsPaths : disk[p] # disk0[p]
    /\ i < Len(hashes)
    /\ hashes[i + 1] # <<>>

\* C9: a failed `git log` ends the process with status 1 before any
\* `git show` or Chtimes; a failed `git show` ends it with status 1 with
\* nothing after it; and no command is invoked twice for the same purpose.
CommandFailureIsFatal ==
    /\ \A n \in EventIdx :
          (events[n].op = "log" /\ gitLog.fail) =>
              /\ events = <<Ev("log", <<>>, ZeroTime), Ev("log-error", <<>>, ZeroTime)>>
              /\ Exited
              /\ exitCode = 1
              /\ disk = (IF run = 1 THEN disk0 ELSE first.disk)
    /\ \A n \in EventIdx :
          (events[n].op = "show" /\ gitShow[events[n].arg].fail) =>
              /\ Len(events) = n + 1
              /\ events[n + 1].op = "show-error"
              /\ Exited
              /\ exitCode = 1
    /\ Cardinality({n \in EventIdx : events[n].op = "log"}) <= 1
    /\ \A n, m \in EventIdx :
          (n # m /\ events[n].op = "show" /\ events[m].op = "show") =>
              events[n].arg # events[m].arg

\* C9 witness: `git show` failed for the first commit while another commit
\* follows it in the enumeration and a writable file exists.
CommandFailureIsFatalWitness ==
    /\ run = 1
    /\ \E n \in EventIdx :
          /\ events[n].op = "show"
          /\ gitShow[events[n].arg].fail
    /\ i < Len(hashes)
    /\ hashes[i + 1] # <<>>
    /\ \E p \in AbsPaths : disk[p].exists /\ p \notin readonly

\* C10: a path's atime and mtime are either the original ones or, together,
\* the date of a processed commit that lists it; every Chtimes call of the
\* run writes the date of the commit being processed to a path that commit
\* lists and that exists; and no path comes into or goes out of existence.
FrameOfRun ==
    /\ \A F \in AbsPaths : disk[F].exists = disk0[F].exists
    /\ \A p \in RelPathSet :
          \/ disk[Abs(p)] = disk0[Abs(p)]
          \/ /\ disk0[Abs(p)].exists
             /\ disk[Abs(p)].atime = disk[Abs(p)].mtime
             /\ \E h \in DOMAIN gitShow :
                   /\ gitShow[h].dated
                   /\ p \in gitShow[h].paths
                   /\ gitShow[h].time = disk[Abs(p)].mtime
    /\ \A n \in EventIdx :
          events[n].op = "chtimes" =>
              LET h == events[ShowBefore(n)].arg IN
              /\ disk0[Abs(events[n].arg)].exists
              /\ events[n].arg \in gitShow[h].paths
              /\ events[n].time = gitShow[h].time
    /\ \A p \in RelPathSet :
          StampsOf(p) # {} =>
              /\ disk[Abs(p)].atime = events[MaxOf(StampsOf(p))].time
              /\ disk[Abs(p)].mtime = events[MaxOf(StampsOf(p))].time

\* C10 witness: one existing path was stamped while another existing path,
\* listed by no commit, still has its original times at the end of the run.
FrameOfRunWitness ==
    /\ Succeeded
    /\ run = 1
    /\ \E p, q \in RelPathSet :
          /\ StampsOf(p) # {}
          /\ disk[Abs(p)] # disk0[Abs(p)]
          /\ disk0[Abs(q)].exists
          /\ \A h \in DOMAIN gitShow : q \notin gitShow[h].paths
          /\ disk[Abs(q)] = disk0[Abs(q)]
    /\ Cardinality(DOMAIN gitShow) > 1

====
